---- MODULE Spec2Model ----
(***************************************************************************)
(* The chess engine hook of src/hooks/use-chess-engine.tsx: the position   *)
(* evaluator, the move orderer, the opening book, the alpha-beta search    *)
(* and the facade (getEngineMove / updatePosition), over a model of the    *)
(* chess.js object (`game`) the hook holds.                                *)
(*                                                                         *)
(* Squares are numbered as SQUARE_INDICES and game.board() number them:    *)
(* index = row * 8 + file, row 0 is rank 8, file 0 is the a-file.          *)
(* Pieces are the FEN letters, "." is an empty square.                     *)
(***************************************************************************)
EXTENDS Integers, Sequences, FiniteSets, TLC

----------------------------------------------------------------------------
(* Squares and pieces                                                      *)

Squares == 0..63

RowOf(s) == s \div 8

FileOf(s) == s % 8

\* the square on file f (0 = a) and rank r (1..8)
Sq(f, r) == (8 - r) * 8 + f

WhitePieces == {"P", "N", "B", "R", "Q", "K"}

BlackPieces == {"p", "n", "b", "r", "q", "k"}

ColorOf(pc) == IF pc \in WhitePieces THEN "w" ELSE "b"

TypeOf(pc) ==
  CASE pc \in {"P", "p"} -> "p"
    [] pc \in {"N", "n"} -> "n"
    [] pc \in {"B", "b"} -> "b"
    [] pc \in {"R", "r"} -> "r"
    [] pc \in {"Q", "q"} -> "q"
    [] pc \in {"K", "k"} -> "k"

PieceOf(type, color) ==
  IF color = "w"
  THEN CASE type = "p" -> "P" [] type = "n" -> "N" [] type = "b" -> "B"
         [] type = "r" -> "R" [] type = "q" -> "Q" [] type = "k" -> "K"
  ELSE type

Other(color) == IF color = "w" THEN "b" ELSE "w"

At(board, s) == board[s + 1]

----------------------------------------------------------------------------
(* Move geometry: one step is <<row delta, file delta>>                    *)

KnightSteps == << <<-1, -2>>, <<-2, -1>>, <<-2, 1>>, <<-1, 2>>,
                  <<1, 2>>, <<2, 1>>, <<2, -1>>, <<1, -2>> >>

QueenSteps == << <<-1, -1>>, <<-1, 0>>, <<-1, 1>>, <<0, 1>>,
                 <<1, 1>>, <<1, 0>>, <<1, -1>>, <<0, -1>> >>

OnBoard(r, f) == r \in 0..7 /\ f \in 0..7

\* the squares from s outward along step d, nearest first
RayFrom(s, d) ==
  LET n == CHOOSE k \in 0..7 :
             /\ \A i \in 1..k : OnBoard(RowOf(s) + i * d[1], FileOf(s) + i * d[2])
             /\ ~OnBoard(RowOf(s) + (k + 1) * d[1], FileOf(s) + (k + 1) * d[2])
  IN  [i \in 1..n |-> s + i * (d[1] * 8 + d[2])]

Rays == [s \in Squares |-> [k \in 1..8 |-> RayFrom(s, QueenSteps[k])]]

\* the single-step targets of s, in the order of the steps; -1 is off the board
StepTargets(s, steps) ==
  [k \in 1..Len(steps) |->
     IF OnBoard(RowOf(s) + steps[k][1], FileOf(s) + steps[k][2])
     THEN s + steps[k][1] * 8 + steps[k][2] ELSE -1]

KnightTargets == [s \in Squares |-> StepTargets(s, KnightSteps)]

KingTargets == [s \in Squares |-> StepTargets(s, QueenSteps)]

\* index into QueenSteps of each bishop and rook direction
BishopDirs == <<1, 3, 5, 7>>

RookDirs == <<2, 4, 6, 8>>

QueenDirs == <<1, 2, 3, 4, 5, 6, 7, 8>>

----------------------------------------------------------------------------
(* chess.js: attacks                                                       *)

\* index of the first occupied square of the ray, 0 when the ray is empty
FirstHit(board, ray) ==
  LET hits == {i \in 1..Len(ray) : At(board, ray[i]) # "."}
  IN  IF hits = {} THEN 0 ELSE CHOOSE i \in hits : \A j \in hits : i <= j

\* a pawn of colour `by` stands where it attacks square s
PawnAttacks(board, s, by) ==
  LET r == IF by = "w" THEN RowOf(s) + 1 ELSE RowOf(s) - 1
      pawn == PieceOf("p", by)
  IN  /\ r \in 0..7
      /\ \/ FileOf(s) > 0 /\ At(board, r * 8 + FileOf(s) - 1) = pawn
         \/ FileOf(s) < 7 /\ At(board, r * 8 + FileOf(s) + 1) = pawn

SliderAttacks(board, s, by) ==
  \E k \in 1..8 :
    LET ray == Rays[s][k]
        i == FirstHit(board, ray)
    IN  /\ i # 0
        /\ At(board, ray[i]) \in
             (IF k % 2 = 1 THEN {PieceOf("b", by), PieceOf("q", by)}
                           ELSE {PieceOf("r", by), PieceOf("q", by)})

\* chess.js _attacked(color, square)
Attacked(board, s, by) ==
  \/ \E k \in 1..8 : KnightTargets[s][k] # -1
                      /\ At(board, KnightTargets[s][k]) = PieceOf("n", by)
  \/ \E k \in 1..8 : KingTargets[s][k] # -1
                      /\ At(board, KingTargets[s][k]) = PieceOf("k", by)
  \/ PawnAttacks(board, s, by)
  \/ SliderAttacks(board, s, by)

KingSquare(board, color) == CHOOSE s \in Squares : At(board, s) = PieceOf("k", color)

\* chess.js _isKingAttacked(color)
KingAttacked(board, color) == Attacked(board, KingSquare(board, color), Other(color))

----------------------------------------------------------------------------
(* chess.js: the position, move generation, making a move                  *)
(*                                                                         *)
(* A position is [board, turn, castling, ep, half, full]: the six fields   *)
(* of a FEN.  castling is a subset of {"K","Q","k","q"}, ep the en-passant *)
(* target square or -1.  A move is [from, to, piece, captured, promotion,  *)
(* kind], kind one of "n" (quiet), "b" (two-square pawn push), "c"         *)
(* (capture), "e" (en passant), "k", "q" (castling).                       *)

Mv(from, to, piece, captured, promotion, kind) ==
  [from |-> from, to |-> to, piece |-> piece, captured |-> captured,
   promotion |-> promotion, kind |-> kind]

\* chess.js addMove: a pawn reaching the last row yields the four promotions
PawnArrivals(from, to, piece, captured, kind) ==
  IF RowOf(to) \in {0, 7}
  THEN << Mv(from, to, piece, captured, "q", kind), Mv(from, to, piece, captured, "r", kind),
          Mv(from, to, piece, captured, "b", kind), Mv(from, to, piece, captured, "n", kind) >>
  ELSE << Mv(from, to, piece, captured, "", kind) >>

PawnCapture(pos, s, t) ==
  LET pc == At(pos.board, s)
      target == At(pos.board, t)
  IN  IF target # "." /\ ColorOf(target) # pos.turn
      THEN PawnArrivals(s, t, pc, TypeOf(target), "c")
      ELSE IF t = pos.ep THEN << Mv(s, t, pc, "p", "", "e") >>
      ELSE << >>

PawnMoves(pos, s) ==
  LET pc == At(pos.board, s)
      up == IF pos.turn = "w" THEN -8 ELSE 8
      home == IF pos.turn = "w" THEN 6 ELSE 1
      one == s + up
      \* PAWN_OFFSETS: w -17, -15 (left, right); b 17, 15 (right, left)
      first == IF pos.turn = "w" THEN -1 ELSE 1
      pushes ==
        IF one \in Squares /\ At(pos.board, one) = "."
        THEN PawnArrivals(s, one, pc, "", "n")
             \o (IF RowOf(s) = home /\ At(pos.board, one + up) = "."
                 THEN << Mv(s, one + up, pc, "", "", "b") >> ELSE << >>)
        ELSE << >>
      cap(df) == IF one \in Squares /\ FileOf(s) + df \in 0..7
                 THEN PawnCapture(pos, s, one + df) ELSE << >>
  IN  pushes \o cap(first) \o cap(-first)

\* the concatenation of the sequences f[lo], ..., f[hi]; the range is halved
\* so that the nesting stays shallow
RECURSIVE Concat(_, _, _)
Concat(f, lo, hi) ==
  IF lo > hi THEN << >>
  ELSE IF lo = hi THEN f[lo]
  ELSE Concat(f, lo, (lo + hi) \div 2) \o Concat(f, (lo + hi) \div 2 + 1, hi)

\* the move of a knight or king from s to t, if there is one
StepMove(pos, s, t) ==
  IF t = -1 THEN << >>
  ELSE IF At(pos.board, t) = "."
  THEN << Mv(s, t, At(pos.board, s), "", "", "n") >>
  ELSE IF ColorOf(At(pos.board, t)) # pos.turn
  THEN << Mv(s, t, At(pos.board, s), TypeOf(At(pos.board, t)), "", "c") >>
  ELSE << >>

StepMoves(pos, s, targets) ==
  Concat([k \in 1..Len(targets) |-> StepMove(pos, s, targets[k])], 1, Len(targets))

\* the moves of a slider along one ray: quiet moves up to the first piece,
\* then its capture if it is the opponent's
RayMoves(pos, s, ray) ==
  LET hit == FirstHit(pos.board, ray)
      free == IF hit = 0 THEN Len(ray) ELSE hit - 1
      quiet == [i \in 1..free |-> Mv(s, ray[i], At(pos.board, s), "", "", "n")]
  IN  IF hit # 0 /\ ColorOf(At(pos.board, ray[hit])) # pos.turn
      THEN Append(quiet, Mv(s, ray[hit], At(pos.board, s),
                            TypeOf(At(pos.board, ray[hit])), "", "c"))
      ELSE quiet

SlideMoves(pos, s, dirs) ==
  Concat([k \in 1..Len(dirs) |-> RayMoves(pos, s, Rays[s][dirs[k]])], 1, Len(dirs))

PieceMoves(pos, s) ==
  LET pc == At(pos.board, s)
  IN  IF pc = "." \/ ColorOf(pc) # pos.turn THEN << >>
      ELSE CASE TypeOf(pc) = "p" -> PawnMoves(pos, s)
             [] TypeOf(pc) = "n" -> StepMoves(pos, s, KnightTargets[s])
             [] TypeOf(pc) = "k" -> StepMoves(pos, s, KingTargets[s])
             [] TypeOf(pc) = "b" -> SlideMoves(pos, s, BishopDirs)
             [] TypeOf(pc) = "r" -> SlideMoves(pos, s, RookDirs)
             [] TypeOf(pc) = "q" -> SlideMoves(pos, s, QueenDirs)

\* the moves of all pieces, in the order of the board scan (a8 first, h1 last)
BoardMoves(pos) == Concat([s \in Squares |-> PieceMoves(pos, s)], 0, 63)

\* no square of the set is attacked by colour `by`
Unattacked(board, squares, by) == \A s \in squares : ~Attacked(board, s, by)

\* the squares of the set are empty
Empty(board, squares) == \A s \in squares : At(board, s) = "."

\* castling of the king on square k, generated after the board scan: king
\* side, then queen side
CastlingFrom(pos, k) ==
  (IF /\ PieceOf("k", pos.turn) \in pos.castling
      /\ Empty(pos.board, {k + 1, k + 2})
      /\ Unattacked(pos.board, {k, k + 1, k + 2}, Other(pos.turn))
   THEN << Mv(k, k + 2, At(pos.board, k), "", "", "k") >> ELSE << >>)
  \o (IF /\ PieceOf("q", pos.turn) \in pos.castling
         /\ Empty(pos.board, {k - 1, k - 2, k - 3})
         /\ Unattacked(pos.board, {k, k - 1, k - 2}, Other(pos.turn))
      THEN << Mv(k, k - 2, At(pos.board, k), "", "", "q") >> ELSE << >>)

CastlingMoves(pos) == CastlingFrom(pos, KingSquare(pos.board, pos.turn))

PseudoLegalMoves(pos) ==
  BoardMoves(pos) \o (IF pos.castling = {} THEN << >> ELSE CastlingMoves(pos))

\* the board after move m
BoardAfter(board, m) ==
  LET placed == IF m.promotion = "" THEN m.piece
                ELSE PieceOf(m.promotion, ColorOf(m.piece))
      b1 == [board EXCEPT ![m.from + 1] = ".", ![m.to + 1] = placed]
  IN  CASE m.kind = "e" ->
             [b1 EXCEPT ![(IF ColorOf(m.piece) = "w" THEN m.to + 8 ELSE m.to - 8) + 1] = "."]
        [] m.kind = "k" ->
             [b1 EXCEPT ![m.to + 2] = ".", ![m.to] = PieceOf("r", ColorOf(m.piece))]
        [] m.kind = "q" ->
             [b1 EXCEPT ![m.to - 1] = ".", ![m.to + 2] = PieceOf("r", ColorOf(m.piece))]
        [] OTHER -> b1

\* castling rights lost by a move from or to a square
RightsLost(s) ==
  CASE s = 60 -> {"K", "Q"} [] s = 63 -> {"K"} [] s = 56 -> {"Q"}
    [] s = 4 -> {"k", "q"}  [] s = 7 -> {"k"}  [] s = 0 -> {"q"}
    [] OTHER -> {}

\* chess.js _makeMove, without the history
PosAfter(pos, m) ==
  [board |-> BoardAfter(pos.board, m),
   turn |-> Other(pos.turn),
   castling |-> IF pos.castling = {} THEN {}
                ELSE pos.castling \ (RightsLost(m.from) \cup RightsLost(m.to)),
   ep |-> IF m.kind = "b" THEN (m.from + m.to) \div 2 ELSE -1,
   half |-> IF TypeOf(m.piece) = "p" \/ m.kind \in {"c", "e"} THEN 0 ELSE pos.half + 1,
   full |-> IF pos.turn = "b" THEN pos.full + 1 ELSE pos.full]

\* a pseudo-legal move is legal when it leaves the mover's king unattacked
IsLegal(pos, m) == ~KingAttacked(BoardAfter(pos.board, m), pos.turn)

\* chess.js _moves({legal: true}), in generation order
LegalMoves(pos) == SelectSeq(PseudoLegalMoves(pos), LAMBDA m : IsLegal(pos, m))

----------------------------------------------------------------------------
(* chess.js: the game object.  game = [pos, history]; a history entry      *)
(* keeps the move and the position it was made from, which undo restores.  *)

\* new Chess(fen) and game.load(fen): the position of the FEN, no history
Load(pos) == [pos |-> pos, history |-> << >>]

\* one rank of the piece placement, from file f on, after `run` empty squares
RECURSIVE RankFen(_, _, _, _)
RankFen(board, row, f, run) ==
  IF f = 8 THEN (IF run > 0 THEN ToString(run) ELSE "")
  ELSE IF At(board, row * 8 + f) = "." THEN RankFen(board, row, f + 1, run + 1)
  ELSE (IF run > 0 THEN ToString(run) ELSE "") \o At(board, row * 8 + f)
       \o RankFen(board, row, f + 1, 0)

\* the piece placement of a FEN
PlacementFen(board) ==
  RankFen(board, 0, 0, 0) \o "/" \o RankFen(board, 1, 0, 0) \o "/"
  \o RankFen(board, 2, 0, 0) \o "/" \o RankFen(board, 3, 0, 0) \o "/"
  \o RankFen(board, 4, 0, 0) \o "/" \o RankFen(board, 5, 0, 0) \o "/"
  \o RankFen(board, 6, 0, 0) \o "/" \o RankFen(board, 7, 0, 0)

\* the castling field of a FEN
CastlingFen(castling) ==
  IF castling = {} THEN "-"
  ELSE (IF "K" \in castling THEN "K" ELSE "") \o (IF "Q" \in castling THEN "Q" ELSE "")
       \o (IF "k" \in castling THEN "k" ELSE "") \o (IF "q" \in castling THEN "q" ELSE "")

\* the letter of a file
FileLetter(f) == << "a", "b", "c", "d", "e", "f", "g", "h" >>[f + 1]

\* a square in algebraic notation
Algebraic(s) == FileLetter(FileOf(s)) \o ToString(8 - RowOf(s))

\* game.fen(): the FEN string of the current position
Fen(game) ==
  PlacementFen(game.pos.board) \o " " \o game.pos.turn \o " "
  \o CastlingFen(game.pos.castling) \o " "
  \o (IF game.pos.ep = -1 THEN "-" ELSE Algebraic(game.pos.ep)) \o " "
  \o ToString(game.pos.half) \o " " \o ToString(game.pos.full)

Turn(game) == game.pos.turn

\* game.inCheck() / game.isCheck()
InCheck(game) == KingAttacked(game.pos.board, game.pos.turn)

\* one of the pseudo-legal moves ms is legal
AnyLegal(pos, ms) == \E i \in 1..Len(ms) : IsLegal(pos, ms[i])

HasLegalMove(pos) == AnyLegal(pos, PseudoLegalMoves(pos))

IsCheckmate(game) == InCheck(game) /\ ~HasLegalMove(game.pos)

IsStalemate(game) == ~InCheck(game) /\ ~HasLegalMove(game.pos)

\* a light square has an even row + file
SquareColor(s) == (RowOf(s) + FileOf(s)) % 2

\* the test of insufficient material on the occupied squares and, among
\* them, the squares of the bishops and of the knights
Insufficient(occupied, bishops, knights) ==
  \/ Cardinality(occupied) = 2
  \/ Cardinality(occupied) = 3 /\ (Cardinality(bishops) = 1 \/ Cardinality(knights) = 1)
  \/ /\ Cardinality(occupied) = Cardinality(bishops) + 2
     /\ \/ \A s \in bishops : SquareColor(s) = 0
        \/ \A s \in bishops : SquareColor(s) = 1

IsInsufficientMaterial(game) ==
  Insufficient({s \in Squares : At(game.pos.board, s) # "."},
               {s \in Squares : At(game.pos.board, s) \in {"b", "B"}},
               {s \in Squares : At(game.pos.board, s) \in {"n", "N"}})

\* the first four FEN fields, which decide a repetition
RepetitionKey(pos) == << pos.board, pos.turn, pos.castling, pos.ep >>

\* the positions the game went through, the current one last
PositionsSeen(game) ==
  [i \in 1..Len(game.history) + 1 |->
     IF i <= Len(game.history) THEN RepetitionKey(game.history[i].before)
     ELSE RepetitionKey(game.pos)]

\* one of the positions seen came three times
Thrice(seen) ==
  /\ Len(seen) >= 9
  /\ \E i \in 1..Len(seen) :
       Cardinality({j \in 1..Len(seen) : seen[j] = seen[i]}) >= 3

IsThreefoldRepetition(game) == Thrice(PositionsSeen(game))

\* a draw by the fifty-move rule, by insufficient material or by repetition
IsDrawByRule(game) ==
  \/ game.pos.half >= 100
  \/ IsInsufficientMaterial(game)
  \/ IsThreefoldRepetition(game)

IsDraw(game) == IsStalemate(game) \/ IsDrawByRule(game)

\* isCheckmate() || isStalemate() || isDraw(): the side to move has no legal
\* move, or the game is drawn by rule
IsGameOver(game) == ~HasLegalMove(game.pos) \/ IsDrawByRule(game)

\* game.move(m): the position after m, m appended to the history
Move(game, m) ==
  [pos |-> PosAfter(game.pos, m),
   history |-> Append(game.history, [move |-> m, before |-> game.pos])]

\* game.undo(): back to the position the last move was made from
Undo(game) ==
  IF game.history = << >> THEN game
  ELSE [pos |-> game.history[Len(game.history)].before,
        history |-> SubSeq(game.history, 1, Len(game.history) - 1)]

----------------------------------------------------------------------------
(* chess.js: notation                                                      *)

\* getDisambiguator: the other legal moves of the same kind of piece to the
\* same square decide whether file, rank or both are written
Disambiguator(ms, m) ==
  LET others == {i \in 1..Len(ms) : /\ ms[i].piece = m.piece
                                    /\ ms[i].to = m.to
                                    /\ ms[i].from # m.from}
      sameRow == \E i \in others : RowOf(ms[i].from) = RowOf(m.from)
      sameFile == \E i \in others : FileOf(ms[i].from) = FileOf(m.from)
  IN  IF others = {} THEN ""
      ELSE IF sameRow /\ sameFile THEN Algebraic(m.from)
      ELSE IF sameFile THEN ToString(8 - RowOf(m.from))
      ELSE FileLetter(FileOf(m.from))

\* "+" when the position after the move is check, "#" when it is mate
SuffixIn(after) ==
  IF ~KingAttacked(after.board, after.turn) THEN ""
  ELSE IF HasLegalMove(after) THEN "+" ELSE "#"

Suffix(pos, m) == SuffixIn(PosAfter(pos, m))

\* _moveToSan, given the suffix
SanWith(ms, m, suf) ==
  CASE m.kind = "k" -> "O-O" \o suf
    [] m.kind = "q" -> "O-O-O" \o suf
    [] TypeOf(m.piece) = "p" ->
         (IF m.kind \in {"c", "e"} THEN FileLetter(FileOf(m.from)) \o "x" ELSE "")
         \o Algebraic(m.to)
         \o (IF m.promotion # "" THEN "=" \o PieceOf(m.promotion, "w") ELSE "")
         \o suf
    [] OTHER ->
         PieceOf(TypeOf(m.piece), "w") \o Disambiguator(ms, m)
         \o (IF m.kind \in {"c", "e"} THEN "x" ELSE "") \o Algebraic(m.to) \o suf

\* the long form: the origin square, the target square, the promotion piece
Lan(m) == Algebraic(m.from) \o Algebraic(m.to) \o m.promotion

\* an array with the elements of f, each computed once
Array(f) == << >> \o f

\* the object game.moves({verbose: true}) builds for the legal move m.
\* Every call builds new objects: `ref` is the identity of the object.
\* `suf` is the "+" or "#" at the end of san.
VerboseMove(ms, m, suf, ref) ==
  [from |-> m.from, to |-> m.to, piece |-> m.piece, captured |-> m.captured,
   promotion |-> m.promotion, kind |-> m.kind, san |-> SanWith(ms, m, suf),
   suf |-> suf, ref |-> ref]

\* the legal moves ms of pos as objects, their identity the number of the
\* call (stamp) and the place in its result
Verbose(pos, ms, stamp) ==
  Array([i \in 1..Len(ms) |-> VerboseMove(ms, ms[i], Suffix(pos, ms[i]), << stamp, i >>)])

\* game.moves({verbose: true})
VerboseMoves(game, stamp) == Verbose(game.pos, LegalMoves(game.pos), stamp)

\* game.moves().length
MoveCount(game) == Len(LegalMoves(game.pos))

----------------------------------------------------------------------------
(* use-chess-engine.tsx: constants and tables                              *)

PIECE_VALUES == [p |-> 100, n |-> 320, b |-> 330, r |-> 500, q |-> 900, k |-> 20000]

KNIGHT_SQUARE_TABLE == <<
  -50,-40,-30,-30,-30,-30,-40,-50,
  -40,-20,  0,  5,  5,  0,-20,-40,
  -30,  5, 10, 15, 15, 10,  5,-30,
  -30,  0, 15, 20, 20, 15,  0,-30,
  -30,  5, 15, 20, 20, 15,  5,-30,
  -30,  0, 10, 15, 15, 10,  0,-30,
  -40,-20,  0,  0,  0,  0,-20,-40,
  -50,-40,-30,-30,-30,-30,-40,-50 >>

PAWN_SQUARE_TABLE == <<
  0,  0,  0,  0,  0,  0,  0,  0,
  50, 50, 50, 50, 50, 50, 50, 50,
  10, 20, 20, 30, 30, 20, 20, 10,
  5,  5,  5, 25, 25,  5,  5,  5,
  0,  0,  0, 20, 20,  0,  0,  0,
  5,  0,  0,  0,  0,  0,  0,  5,
  5, 10, 10,-20,-20, 10, 10,  5,
  0,  0,  0,  0,  0,  0,  0,  0 >>

BISHOP_SQUARE_TABLE == <<
  -20,-10,-10,-10,-10,-10,-10,-20,
  -10,  5,  0,  0,  0,  0,  5,-10,
  -10, 10, 10, 10, 10, 10, 10,-10,
  -10,  0, 10, 10, 10, 10,  0,-10,
  -10,  5,  5, 10, 10,  5,  5,-10,
  -10,  0,  5, 10, 10,  5,  0,-10,
  -10,  0,  0,  0,  0,  0,  0,-10,
  -20,-10,-10,-10,-10,-10,-10,-20 >>

KING_SQUARE_TABLE == <<
  -30,-40,-40,-50,-50,-40,-40,-30,
  -30,-40,-40,-50,-50,-40,-40,-30,
  -30,-40,-40,-50,-50,-40,-40,-30,
  -30,-40,-40,-50,-50,-40,-40,-30,
  -20,-30,-30,-40,-40,-30,-30,-20,
  -10,-20,-20,-20,-20,-20,-20,-10,
   20, 20,  0,  0,  0,  0, 20, 20,
   20, 30, 10,  0,  0, 10, 30, 20 >>

HIPPO_OPENING_BLACK == << "g6", "Bg7", "d6", "Nd7", "e6", "Ngf7", "b6", "Bb7" >>

HIPPO_OPENING_WHITE == << "g3", "Bg2", "d3", "Nd2", "e3", "Ngf3", "b3", "Bb2" >>

DEPTH == 3

\* the value standing for JavaScript's Infinity: larger than any board score
Infinity == 1000000

\* null, as a move
Null == [from |-> -1, to |-> -1, piece |-> ".", captured |-> "", promotion |-> "",
         kind |-> "null", san |-> "", suf |-> "", ref |-> << 0, 0 >>]

Max(a, b) == IF a >= b THEN a ELSE b

Min(a, b) == IF a <= b THEN a ELSE b

----------------------------------------------------------------------------
(* use-chess-engine.tsx: the evaluator                                     *)

\* a table read in its own order
Unreversed(table) == table

\* [...table].reverse()
Reversed(table) == [i \in 1..Len(table) |-> table[Len(table) + 1 - i]]

flippedTables ==
  [knight |-> Reversed(KNIGHT_SQUARE_TABLE), pawn |-> Reversed(PAWN_SQUARE_TABLE),
   bishop |-> Reversed(BISHOP_SQUARE_TABLE), king |-> Reversed(KING_SQUARE_TABLE)]

getPieceSquareValue(piece, squareIndex) ==
  IF ColorOf(piece) = "w"
  THEN CASE TypeOf(piece) = "n" -> KNIGHT_SQUARE_TABLE[squareIndex + 1]
         [] TypeOf(piece) = "p" -> PAWN_SQUARE_TABLE[squareIndex + 1]
         [] TypeOf(piece) = "b" -> BISHOP_SQUARE_TABLE[squareIndex + 1]
         [] TypeOf(piece) = "k" -> KING_SQUARE_TABLE[squareIndex + 1]
         [] OTHER -> 0
  ELSE CASE TypeOf(piece) = "n" -> flippedTables.knight[squareIndex + 1]
         [] TypeOf(piece) = "p" -> flippedTables.pawn[squareIndex + 1]
         [] TypeOf(piece) = "b" -> flippedTables.bishop[squareIndex + 1]
         [] TypeOf(piece) = "k" -> flippedTables.king[squareIndex + 1]
         [] OTHER -> 0

\* a score per piece that adds the position bonus whatever the colour
SignedByMaterial(piece, pieceValue, positionBonus) ==
  (IF ColorOf(piece) = "w" THEN pieceValue ELSE -pieceValue) + positionBonus

\* the material value and the position bonus, each added for White and
\* subtracted for Black
Signed(piece, pieceValue, positionBonus) ==
  (IF ColorOf(piece) = "w" THEN pieceValue ELSE -pieceValue)
  + (IF ColorOf(piece) = "w" THEN positionBonus ELSE -positionBonus)

\* what the piece on one square adds to the score
SquareScore(board, squareIndex) ==
  IF At(board, squareIndex) = "." THEN 0
  ELSE Signed(At(board, squareIndex), PIECE_VALUES[TypeOf(At(board, squareIndex))],
              getPieceSquareValue(At(board, squareIndex), squareIndex))

\* the loop over rank and file of evaluateBoard: the sum over squares lo..hi
RECURSIVE BoardScore(_, _, _)
BoardScore(board, lo, hi) ==
  IF lo = hi THEN SquareScore(board, lo)
  ELSE BoardScore(board, lo, (lo + hi) \div 2) + BoardScore(board, (lo + hi) \div 2 + 1, hi)

\* a score that leaves the mobility of the side to move out
ScoreWithoutMobility(game, moveCount, inCheck) ==
  BoardScore(game.pos.board, 0, 63)
  + (IF inCheck THEN (IF Turn(game) = "w" THEN -50 ELSE 50) ELSE 0)

\* a score that takes 50 off for a check whoever is in check
ScoreWithCheckAgainstWhite(game, moveCount, inCheck) ==
  BoardScore(game.pos.board, 0, 63)
  + (IF Turn(game) = "w" THEN moveCount ELSE -moveCount)
  + (IF inCheck THEN -50 ELSE 0)

\* a score that adds the mobility of the side to move whoever moves
ScoreWithMobilityAdded(game, moveCount, inCheck) ==
  BoardScore(game.pos.board, 0, 63) + moveCount
  + (IF inCheck THEN (IF Turn(game) = "w" THEN -50 ELSE 50) ELSE 0)

\* the score of a position that is neither cached nor terminal: material and
\* position, mobility of the side to move, king safety
Score(game, moveCount, inCheck) ==
  LET whiteMobility == IF Turn(game) = "w" THEN moveCount ELSE 0
      blackMobility == IF Turn(game) = "b" THEN moveCount ELSE 0
  IN  BoardScore(game.pos.board, 0, 63)
      + (whiteMobility - blackMobility)
      + (IF inCheck THEN (IF Turn(game) = "w" THEN -50 ELSE 50) ELSE 0)

\* The Map from FEN to score keeps its entries << fen, score >> in the
\* order they were set, here in rows of at most 32.
\* new Map(), and the Map after clear()
EmptyCache == << >>

\* evalCache.has(fen)
CacheHas(cache, fen) ==
  \E r \in 1..Len(cache) : \E k \in 1..Len(cache[r]) : cache[r][k][1] = fen

\* the entry of one row for fen
RowGet(row, fen) == row[CHOOSE k \in 1..Len(row) : row[k][1] = fen][2]

\* evalCache.get(fen), for a FEN the Map has
CacheGet(cache, fen) ==
  RowGet(cache[CHOOSE r \in 1..Len(cache) :
                 \E k \in 1..Len(cache[r]) : cache[r][k][1] = fen], fen)

\* a Map that holds one entry, the last one set
CacheSetEvicting(cache, fen, score) == << << << fen, score >> >> >>

\* evalCache.set(fen, score), for a FEN the Map has not
CacheSet(cache, fen, score) ==
  IF cache = << >> \/ Len(cache[Len(cache)]) = 32
  THEN Append(cache, << << fen, score >> >>)
  ELSE [cache EXCEPT ![Len(cache)] = Append(cache[Len(cache)], << fen, score >>)]

\* a computed score that is returned and not stored
Uncached(cache, fen, score) ==
  [score |-> score, cache |-> cache, hit |-> FALSE]

\* evalCache.set(fen, score); return score
Cached(cache, fen, score) ==
  [score |-> score, cache |-> CacheSet(cache, fen, score), hit |-> FALSE]

\* evaluateBoard, given game.fen(), game.moves().length and game.inCheck():
\* the cache is looked up first, then the terminal states are told (mate is
\* check with no legal move, a draw is no check and no legal move, or a
\* draw by rule), then the score is computed and cached
Evaluate(game, cache, fen, moveCount, inCheck) ==
  IF CacheHas(cache, fen)
  THEN [score |-> CacheGet(cache, fen), cache |-> cache, hit |-> TRUE]
  ELSE IF inCheck /\ moveCount = 0
  THEN [score |-> IF Turn(game) = "w" THEN -Infinity ELSE Infinity,
        cache |-> cache, hit |-> FALSE]
  ELSE IF (~inCheck /\ moveCount = 0) \/ IsDrawByRule(game)
  THEN [score |-> 0, cache |-> cache, hit |-> FALSE]
  ELSE Cached(cache, fen, Score(game, moveCount, inCheck))

\* evaluateBoard: the score, the cache after the call, and whether the
\* score came from the cache
evaluateBoard(game, cache) ==
  Evaluate(game, cache, Fen(game), MoveCount(game), InCheck(game))

\* countPassedPawns: white pawns on rows 0..2 minus black pawns on rows 5..7.
\* No code of the hook calls it.
countPassedPawns(game) ==
  Cardinality({s \in Squares : RowOf(s) < 3 /\ At(game.pos.board, s) = "P"})
  - Cardinality({s \in Squares : RowOf(s) >= 5 /\ At(game.pos.board, s) = "p"})

----------------------------------------------------------------------------
(* use-chess-engine.tsx: the move orderer                                  *)

\* a score that adds the value of the captured piece as it is
OrderScoreUnweighted(m) ==
  (IF m.captured # "" THEN PIECE_VALUES[m.captured] ELSE 0)
  + (IF m.promotion # "" THEN PIECE_VALUES[m.promotion] ELSE 0)
  + (IF m.suf = "+" THEN 50 ELSE 0)

\* the score the comparator of orderMoves gives one move
OrderScore(m) ==
  (IF m.captured # "" THEN PIECE_VALUES[m.captured] * 10 ELSE 0)
  + (IF m.promotion # "" THEN PIECE_VALUES[m.promotion] ELSE 0)
  + (IF m.suf = "+" THEN 50 ELSE 0)

\* a comparator that puts the lower score first
CompareAscending(scoreA, scoreB) == scoreA - scoreB

\* the comparator of orderMoves on the two scores: negative puts a first,
\* positive puts b first
CompareScores(scoreA, scoreB) == scoreB - scoreA

\* Array.prototype.sort is stable: a move comes after the moves the comparator
\* puts before it and after the earlier moves the comparator ties it with.
\* The sort is in place: the result holds the same objects.
orderMoves(moves) ==
  LET n == Len(moves)
      score == Array([i \in 1..n |-> OrderScore(moves[i])])
      place == Array([i \in 1..n |->
                 1 + Cardinality({j \in 1..n :
                       \/ CompareScores(score[j], score[i]) < 0
                       \/ j < i /\ CompareScores(score[j], score[i]) = 0})])
  IN  Array([k \in 1..n |-> moves[CHOOSE i \in 1..n : place[i] = k]])

----------------------------------------------------------------------------
(* Positions                                                               *)

\* new Chess(): the starting position
InitialPosition ==
  [board |-> << "r", "n", "b", "q", "k", "b", "n", "r",
                "p", "p", "p", "p", "p", "p", "p", "p",
                ".", ".", ".", ".", ".", ".", ".", ".",
                ".", ".", ".", ".", ".", ".", ".", ".",
                ".", ".", ".", ".", ".", ".", ".", ".",
                ".", ".", ".", ".", ".", ".", ".", ".",
                "P", "P", "P", "P", "P", "P", "P", "P",
                "R", "N", "B", "Q", "K", "B", "N", "R" >>,
   turn |-> "w", castling |-> {"K", "Q", "k", "q"}, ep |-> -1, half |-> 0, full |-> 1]

\* the board with the given pieces, a set of << file, rank, piece >>
BoardOf(pieces) ==
  [i \in 1..64 |->
     IF \E x \in pieces : Sq(x[1], x[2]) = i - 1
     THEN (CHOOSE x \in pieces : Sq(x[1], x[2]) = i - 1)[3]
     ELSE "."]

\* the position of the FEN "<pieces> <turn> - - 0 1"
Position(pieces, turn) ==
  [board |-> BoardOf(pieces), turn |-> turn, castling |-> {}, ep |-> -1,
   half |-> 0, full |-> 1]

\* k7/8/1K6/8/8/8/8/2Q5 w: White mates at once with Qc8
MateInOne == Position({ <<0, 8, "k">>, <<1, 6, "K">>, <<2, 1, "Q">> }, "w")

\* 2q5/8/8/8/8/1k6/8/K7 b: Black mates at once with Qc1
MateInOneBlack == Position({ <<0, 1, "K">>, <<1, 3, "k">>, <<2, 8, "q">> }, "b")

\* 8/8/8/8/8/6k1/4q3/7K w: White's one move, Kg1, is answered by mate
Lost == Position({ <<6, 3, "k">>, <<4, 2, "q">>, <<7, 1, "K">> }, "w")

\* 4k3/8/8/8/8/8/6P1/4K3 w: the scripted g3 is legal
PawnG2 == Position({ <<4, 8, "k">>, <<6, 2, "P">>, <<4, 1, "K">> }, "w")

\* 4k3/6p1/8/8/8/8/8/4K3 w: no scripted move for White, g6 legal for Black
PawnG7 == Position({ <<4, 8, "k">>, <<6, 7, "p">>, <<4, 1, "K">> }, "w")

\* 8/8/8/8/8/k7/8/K7 w: the two kings, a draw
BareKings == Position({ <<0, 3, "k">>, <<0, 1, "K">> }, "w")

\* 8/8/8/8/8/6k1/8/4q1K1 w: White is checkmated
Mated == Position({ <<6, 3, "k">>, <<4, 1, "q">>, <<6, 1, "K">> }, "w")

\* k1Q5/8/1K6/8/8/8/8/8 b: Black is checkmated
MatedBlack == Position({ <<0, 8, "k">>, <<1, 6, "K">>, <<2, 8, "Q">> }, "b")

\* k7/2Q5/1K6/8/8/8/8/8 b: Black is stalemated, a queen down
Stalemate == Position({ <<0, 8, "k">>, <<1, 6, "K">>, <<2, 7, "Q">> }, "b")

\* 4k3/8/8/8/8/5n2/8/4K3 w: a draw by insufficient material with White in
\* check and free to move
KnightCheck == Position({ <<4, 8, "k">>, <<5, 3, "n">>, <<4, 1, "K">> }, "w")

\* 4r2k/8/8/8/8/8/8/4K3 w: White is in check and the game goes on
RookCheck == Position({ <<4, 8, "r">>, <<7, 8, "k">>, <<4, 1, "K">> }, "w")

\* 4k3/8/8/8/8/8/8/4R2K b: Black is in check and the game goes on
RookCheckBlack == Position({ <<4, 8, "k">>, <<4, 1, "R">>, <<7, 1, "K">> }, "b")

\* 4k3/8/8/8/8/8/6P1/4K3 w - - 100 1: a draw by the fifty-move rule
FiftyMoves == [PawnG2 EXCEPT !.half = 100]

\* 2n4k/1P6/8/8/8/8/8/KR5b w: the rook takes the bishop, the pawn takes the
\* knight and promotes, with check
Tactics ==
  Position({ <<2, 8, "n">>, <<7, 8, "k">>, <<1, 7, "P">>, <<0, 1, "K">>,
             <<1, 1, "R">>, <<7, 1, "b">> }, "w")

\* 2n4k/1P6/8/8/8/8/8/KR5r w: the rook takes a rook, the pawn takes the
\* knight and promotes, with check
TacticsRook ==
  Position({ <<2, 8, "n">>, <<7, 8, "k">>, <<1, 7, "P">>, <<0, 1, "K">>,
             <<1, 1, "R">>, <<7, 1, "r">> }, "w")

\* 7k/8/8/8/8/7p/7P/7K w: White has the one move Kg1, no scripted move is
\* legal for either side
Blocked ==
  Position({ <<7, 8, "k">>, <<7, 3, "p">>, <<7, 2, "P">>, <<7, 1, "K">> }, "w")

\* the pawns of Caged: they block one another, and the squares f2, g2, h2
\* and f7, g7, h7 are closed to the kings
CagePawns ==
  { <<5, 7, "p">>, <<7, 7, "p">>, <<5, 6, "P">>, <<7, 6, "P">>,
    <<5, 3, "p">>, <<7, 3, "p">>, <<5, 2, "P">>, <<7, 2, "P">> }

\* 6k1/5p1p/5P1P/8/8/5p1p/5P1P/6K1 w - - 0 1: no pawn can move, the kings
\* have the first and the eighth rank
Caged == Position(CagePawns \cup { <<6, 8, "k">>, <<6, 1, "K">> }, "w")

\* 6k1/5p1p/5P1P/8/8/5p1p/5P1P/7K b - - 5 3: three plies on, with the kings
\* back on g8 and g1, the FEN is that of Caged after eight plies
CagedAhead ==
  [Position(CagePawns \cup { <<6, 8, "k">>, <<7, 1, "K">> }, "b")
     EXCEPT !.half = 5, !.full = 3]

\* 4k3/p7/8/8/8/8/P7/4K3: a pawn each on the a-file, the side to move given
PawnsOnA(turn) ==
  Position({ <<4, 8, "k">>, <<0, 7, "p">>, <<0, 2, "P">>, <<4, 1, "K">> }, turn)

\* PawnsOnA and one more pawn, on a square of the h-file: no pawn of the
\* other side is on the g-file or the h-file
WithPawn(turn, rank, pawn) ==
  Position({ <<4, 8, "k">>, <<0, 7, "p">>, <<0, 2, "P">>, <<4, 1, "K">>,
             <<7, rank, pawn>> }, turn)

----------------------------------------------------------------------------
(* The state of the hook                                                   *)

VARIABLES
  game,       \* the chess.js object the hook holds: [pos, history]
  evalCache,  \* the Map from FEN to score
  status,     \* the status text
  lastMove,   \* the last move the engine made, Null before the first
  isLoading,  \* the busy flag
  timers,     \* the setTimeout callbacks not yet run, oldest first
  stack,      \* the activations of minimax in the callback that is running
  ret,        \* << r >> while the call of minimax that returned r is being
              \* left and its caller has not gone on, << >> otherwise
  delivered,  \* what the promises of getEngineMove were resolved with, in order
  listings,   \* how many times game.moves({verbose: true}) was called
  applies,    \* how many times the search called game.move
  evaluated,  \* what the direct calls of evaluateBoard returned, and for
              \* which FEN, since the last other operation
  thrown      \* << o >>, o the last operation that threw to its caller,
              \* << >> when none has

vars == << game, evalCache, status, lastMove, isLoading, timers, stack, ret,
           delivered, listings, applies, evaluated, thrown >>

\* a hook whose operations may run as soon as minimax has returned, before
\* getEngineMove goes on with the result
IdleAfterSearch == stack = << >>

\* no timer callback is running
Idle == stack = << >> /\ ret = << >>

\* useChessEngine(): the state after construction
Init ==
  /\ game = Load(InitialPosition)
  /\ evalCache = EmptyCache
  /\ status = "Ready"
  /\ lastMove = Null
  /\ isLoading = FALSE
  /\ timers = << >>
  /\ stack = << >>
  /\ ret = << >>
  /\ delivered = << >>
  /\ listings = 0
  /\ applies = 0
  /\ evaluated = << >>
  /\ thrown = << >>

----------------------------------------------------------------------------
(* use-chess-engine.tsx: the search.  minimax runs inside a timer callback *)
(* and works on the hook's one game object and cache.  Each activation is  *)
(* a frame of `stack`: its arguments (call), the state it was entered in   *)
(* (entered), its place (pc: "entry" before the body, "loop" at the head   *)
(* of the loop over the moves, "called" inside the recursive call) and its *)
(* local variables (alpha and beta as the loop updates them, the ordered   *)
(* moves, the index i of the move in hand, best for maxEval or minEval,    *)
(* bestMove).                                                              *)

Top == stack[Len(stack)]

Pop == SubSeq(stack, 1, Len(stack) - 1)

\* what a call finds on entry, to tell on return that nothing has changed:
\* game.fen() and game.history()
Snapshot(g) ==
  [fen |-> Fen(g), history |-> [i \in 1..Len(g.history) |-> g.history[i].move.san]]

\* the activation of minimax(depth, alpha, beta, maximizingPlayer), called
\* on game g after `listed` listings and `applied` applications
Called(depth, alpha, beta, maximizingPlayer, g, listed, applied) ==
  [pc |-> "entry", alpha |-> alpha, beta |-> beta, moves |-> << >>, i |-> 0,
   best |-> 0, bestMove |-> Null,
   call |-> [depth |-> depth, alpha |-> alpha, beta |-> beta,
             maximizingPlayer |-> maximizingPlayer],
   entered |-> [game |-> Snapshot(g), listings |-> listed, applies |-> applied]]

\* the result { score, move } of the call that ran in frame
Returned(score, move, frame) ==
  [score |-> score, move |-> move, call |-> frame.call, entered |-> frame.entered]

\* a base case that tests only for the end of the game and so lets a call
\* with depth 0 list the moves and search on
BaseCaseWithoutDepth(depth, g) == IsGameOver(g)

\* the test of the base case
BaseCase(depth, g) == depth = 0 \/ IsGameOver(g)

\* a loop that begins with 0 as the best score so far
BegunFromZero(frame, moves) ==
  [frame EXCEPT !.pc = "loop", !.moves = moves, !.i = 1, !.best = 0]

\* the frame once the moves are listed and ordered and the loop is about to begin
Begun(frame, moves) ==
  [frame EXCEPT !.pc = "loop", !.moves = moves, !.i = 1,
                !.best = IF frame.call.maximizingPlayer THEN -Infinity ELSE Infinity]

\* the base case: the evaluation e is returned, with no move
ReturnEvaluation(e) ==
  /\ evalCache' = e.cache
  /\ ret' = << Returned(e.score, Null, Top) >>
  /\ stack' = Pop
  /\ UNCHANGED listings

\* minimax up to the loop: the base case returns the evaluation and no move,
\* otherwise the moves are listed and ordered
MinimaxEnter ==
  /\ stack # << >>
  /\ Top.pc = "entry"
  /\ IF BaseCase(Top.call.depth, game)
     THEN ReturnEvaluation(evaluateBoard(game, evalCache))
     ELSE /\ stack' = Append(Pop, Begun(Top, orderMoves(VerboseMoves(game, listings + 1))))
          /\ listings' = listings + 1
          /\ UNCHANGED << evalCache, ret >>
  /\ UNCHANGED << game, status, lastMove, isLoading, timers, delivered, applies,
                  evaluated,
                  thrown >>

\* an early return that leaves the mating move on the board
EarlyReturnWithoutUndo(made) == made

\* the game the early return on a mating move leaves: the move is undone
EarlyReturnGame(made) == Undo(made)

\* the move is applied, which gives the game `made`; a mating move is undone
\* and returned at once, otherwise minimax is called
Apply(move, made) ==
  IF IsCheckmate(made)
  THEN /\ game' = EarlyReturnGame(made)
       /\ stack' = Pop
       /\ ret' = << Returned(IF Top.call.maximizingPlayer THEN Infinity
                             ELSE -Infinity, move, Top) >>
  ELSE /\ game' = made
       /\ stack' = Append(Append(Pop, [Top EXCEPT !.pc = "called"]),
                          Called(Top.call.depth - 1, Top.alpha, Top.beta,
                                 ~Top.call.maximizingPlayer, made,
                                 listings, applies + 1))
       /\ ret' = << >>

\* one pass of the loop up to the recursive call
MinimaxMove ==
  /\ stack # << >>
  /\ Top.pc = "loop"
  /\ applies' = applies + 1
  /\ Apply(Top.moves[Top.i], Move(game, Top.moves[Top.i]))
  /\ UNCHANGED << evalCache, status, lastMove, isLoading, timers, delivered,
                  listings, evaluated,
                  thrown >>

\* the comparison that makes a score the best so far
Better(maximizingPlayer, evalScore, best) ==
  IF maximizingPlayer THEN evalScore > best ELSE evalScore < best

\* the loop's variables after the score of the move in hand came back
Updated(frame, evalScore) ==
  LET better == Better(frame.call.maximizingPlayer, evalScore, frame.best)
      best == IF better THEN evalScore ELSE frame.best
  IN  [frame EXCEPT
         !.best = best,
         !.bestMove = IF better THEN frame.moves[frame.i] ELSE frame.bestMove,
         !.alpha = IF frame.call.maximizingPlayer THEN Max(frame.alpha, best)
                   ELSE frame.alpha,
         !.beta = IF frame.call.maximizingPlayer THEN frame.beta
                  ELSE Min(frame.beta, best)]

\* the loop goes on with the next move, or is left when the window is empty
\* or the moves are used up, and then the best score and move are returned
Continue(next) ==
  IF next.beta <= next.alpha \/ next.i = Len(next.moves)
  THEN /\ stack' = Pop
       /\ ret' = << Returned(next.best, next.bestMove, next) >>
  ELSE /\ stack' = Append(Pop, [next EXCEPT !.pc = "loop", !.i = next.i + 1])
       /\ ret' = << >>

\* the rest of the pass: the move is undone, the best score and the window
\* are updated
MinimaxResume ==
  /\ stack # << >>
  /\ Top.pc = "called"
  /\ ret # << >>
  /\ game' = Undo(game)
  /\ Continue(Updated(Top, ret[1].score))
  /\ UNCHANGED << evalCache, status, lastMove, isLoading, timers, delivered,
                  listings, applies, evaluated,
                  thrown >>

----------------------------------------------------------------------------
(* use-chess-engine.tsx: the opening book and the facade                   *)

\* the places of the legal moves whose san or lan is the scripted notation
Matches(legalMoves, hippoMove) ==
  {k \in 1..Len(legalMoves) :
     legalMoves[k].san = hippoMove \/ Lan(legalMoves[k]) = hippoMove}

\* Array.prototype.find: the first of the places found, null when none
Find(legalMoves, found) ==
  IF found = {} THEN Null
  ELSE legalMoves[CHOOSE k \in found : \A j \in found : k <= j]

\* the script of the side to move
OpeningMoves(g) ==
  IF Turn(g) = "w" THEN HIPPO_OPENING_WHITE ELSE HIPPO_OPENING_BLACK

\* the scripted move at twice openingIndex: the index counts the moves of
\* both sides
ScriptedMoveByPly(legalMoves, openingMoves, openingIndex) ==
  Find(legalMoves, Matches(legalMoves, openingMoves[2 * openingIndex + 1]))

\* the scripted move at openingIndex among the legal moves
ScriptedMove(legalMoves, openingMoves, openingIndex) ==
  Find(legalMoves, Matches(legalMoves, openingMoves[openingIndex + 1]))

\* getHippoMove without the test of the number of moves made
getHippoMoveAnyPly(g, stamp) ==
  [listed |-> TRUE,
   move |-> ScriptedMove(VerboseMoves(g, stamp), OpeningMoves(g),
                         Len(g.history) \div 2)]

\* getHippoMove on game g: the scripted move of the side to move if it is
\* legal, else null; `listed` tells whether game.moves was called, and
\* stamp is the number of that call
getHippoMove(g, stamp) ==
  IF Len(g.history) < 8 /\ Len(g.history) \div 2 < Len(OpeningMoves(g))
  THEN [listed |-> TRUE,
        move |-> ScriptedMove(VerboseMoves(g, stamp), OpeningMoves(g),
                           Len(g.history) \div 2)]
  ELSE [listed |-> FALSE, move |-> Null]

\* Array.prototype.includes: the array holds this very object
Includes(moves, move) == \E k \in 1..Len(moves) : moves[k] = move

\* a timer set by getEngineMove
Timer(kind, hippoMove) == [kind |-> kind, hippoMove |-> hippoMove]

\* what a promise of getEngineMove is resolved with, and what the caller can
\* see at that moment: the number of moves in the game's history, whether
\* the move is the last of them, lastMove, the status and the busy flag
Delivery(move, branch, g, last, text, busy) ==
  [move |-> move, branch |-> branch, ply |-> Len(g.history),
   applied |-> g.history # << >> /\ g.history[Len(g.history)].move = move,
   lastMove |-> last, status |-> text, isLoading |-> busy]

\* the calls of getEngineMove made so far
Requests ==
  Len(delivered) + Cardinality({k \in 1..Len(timers) : timers[k].kind = "search"})
  + (IF Idle THEN 0 ELSE 1)

\* getEngineMove on a game that is over
GameOver(over) ==
  /\ status' = over
  /\ delivered' = Append(delivered,
       Delivery(Null, "over", game', lastMove, over, isLoading))
  /\ UNCHANGED << isLoading, timers, listings >>

\* getEngineMove on a game that goes on: busy, then the book's move is
\* returned and its timer set, or the timer of the search is set
Think(book, thinking) ==
  /\ status' = thinking
  /\ isLoading' = TRUE
  /\ listings' = IF book.listed THEN listings + 1 ELSE listings
  /\ IF book.move # Null
     THEN /\ timers' = Append(timers, Timer("book", book.move))
          /\ delivered' = Append(delivered,
               Delivery(book.move, "book", game', lastMove, thinking, TRUE))
     ELSE /\ timers' = Append(timers, Timer("search", Null))
          /\ UNCHANGED delivered

\* the status of a game that is over, by the test of the check alone
GameOverStatusByCheck(loaded) ==
  "Game Over: " \o (IF InCheck(loaded) THEN "Checkmate" ELSE "Draw")

\* the status of a game that is over
GameOverStatus(loaded) ==
  "Game Over: " \o (IF IsCheckmate(loaded) THEN "Checkmate" ELSE "Draw")

\* getEngineMove from after the load
GetEngineMove(loaded) ==
  /\ game' = loaded
  /\ IF IsGameOver(loaded)
     THEN GameOver(GameOverStatus(loaded))
     ELSE Think(getHippoMove(loaded, listings + 1),
                "Engine thinking...")

\* getEngineMove(fen) up to its first await or return; fen is << >> when
\* the argument is left out
RequestMove(fen) ==
  /\ Idle
  /\ GetEngineMove(IF fen # << >> THEN Load(fen[1]) ELSE game)
  /\ UNCHANGED << evalCache, lastMove, stack, ret, applies, evaluated,
                  thrown >>

\* the callback of the book's timer, given the fresh list of legal moves
BookCallback(hippoMove, fresh) ==
  IF Includes(fresh, hippoMove)
  THEN /\ game' = Move(game, hippoMove)
       /\ lastMove' = hippoMove
       /\ status' = "Engine moved: " \o hippoMove.san \o " (Hippo opening)"
       /\ isLoading' = FALSE
  ELSE UNCHANGED << game, lastMove, status, isLoading >>

\* the timer of the book branch runs
BookTimeout ==
  /\ Idle
  /\ timers # << >>
  /\ Head(timers).kind = "book"
  /\ timers' = Tail(timers)
  /\ listings' = listings + 1
  /\ BookCallback(Head(timers).hippoMove, VerboseMoves(game, listings + 1))
  /\ UNCHANGED << evalCache, stack, ret, delivered, applies, evaluated,
                  thrown >>

\* the timer of the search branch runs: minimax is called
SearchTimeout ==
  /\ Idle
  /\ timers # << >>
  /\ Head(timers).kind = "search"
  /\ timers' = Tail(timers)
  /\ stack' = << Called(DEPTH, -Infinity, Infinity, Turn(game) = "w", game,
                        listings, applies) >>
  /\ UNCHANGED << game, evalCache, status, lastMove, isLoading, ret, delivered,
                  listings, applies, evaluated,
                  thrown >>

\* the rest of getEngineMove with a status of the end of the game when the
\* search gave no move
ResolvedAsGameOver(result, moved) ==
  IF result.move # Null
  THEN /\ game' = Move(game, result.move)
       /\ lastMove' = result.move
       /\ status' = moved
       /\ delivered' = Append(delivered,
            Delivery(result.move, "search", game', result.move, moved, FALSE))
  ELSE /\ status' = GameOverStatus(game)
       /\ delivered' = Append(delivered,
            Delivery(Null, "search", game, lastMove, status', FALSE))
       /\ UNCHANGED << game, lastMove >>

\* the rest of getEngineMove after the await, with the result of the search
Resolved(result, moved) ==
  IF result.move # Null
  THEN /\ game' = Move(game, result.move)
       /\ lastMove' = result.move
       /\ status' = moved
       /\ delivered' = Append(delivered,
            Delivery(result.move, "search", game', result.move, moved, FALSE))
  ELSE /\ status' = "No valid moves available"
       /\ delivered' = Append(delivered,
            Delivery(Null, "search", game, lastMove, status', FALSE))
       /\ UNCHANGED << game, lastMove >>

\* minimax has returned to the timer, which resolves the promise
\* getEngineMove awaits: the rest of getEngineMove runs
SearchResolved ==
  /\ stack = << >>
  /\ ret # << >>
  /\ ret' = << >>
  /\ isLoading' = FALSE
  /\ Resolved(ret[1], "Engine moved: " \o ret[1].move.san)
  /\ UNCHANGED << evalCache, timers, stack, listings, applies, evaluated,
                  thrown >>

\* updatePosition(fen) without the clearing of the cache
UpdatePositionKeepingCache(fen) ==
  /\ Idle
  /\ game' = Load(fen)
  /\ status' = "Position updated"
  /\ evaluated' = << >>
  /\ UNCHANGED << evalCache, lastMove, isLoading, timers, stack, ret,
                  delivered, listings, applies, thrown >>

\* updatePosition(fen)
UpdatePosition(fen) ==
  /\ Idle
  /\ game' = Load(fen)
  /\ status' = "Position updated"
  /\ evalCache' = EmptyCache
  /\ evaluated' = << >>
  /\ UNCHANGED << lastMove, isLoading, timers, stack, ret, delivered, listings,
                  applies, thrown >>

\* an operation whose game.load(fen) fails and which goes on with the game
\* as it is
LoadFailureIgnored(operation) ==
  /\ Idle
  /\ thrown' = << operation >>
  /\ IF operation = "getEngineMove"
     THEN /\ GetEngineMove(game)
          /\ UNCHANGED << evalCache, lastMove, stack, ret, applies, evaluated >>
     ELSE /\ status' = "Position updated"
          /\ evalCache' = EmptyCache
          /\ UNCHANGED << game, lastMove, isLoading, timers, stack, ret,
                          delivered, listings, applies, evaluated >>

\* getEngineMove(fen) or updatePosition(fen) with a FEN that is not well
\* formed: game.load(fen) throws before it changes the game, the operation
\* has no handler around it, so the exception leaves it at its first
\* statement and reaches the caller (from getEngineMove, as the rejection
\* of its promise)
LoadThrows(operation) ==
  /\ Idle
  /\ thrown' = << operation >>
  /\ UNCHANGED << game, evalCache, status, lastMove, isLoading, timers, stack,
                  ret, delivered, listings, applies, evaluated >>

\* the operations that load a FEN
Loaders == {"getEngineMove", "updatePosition"}

\* the positions a caller hands to the hook
Offers == {MateInOne, Lost, PawnG2, PawnG7, BareKings}

MaxRequests == 2

Next ==
  \/ \E fen \in {<< >>} \cup {<< p >> : p \in Offers} :
       Requests < MaxRequests /\ RequestMove(fen)
  \/ \E fen \in Offers : UpdatePosition(fen)
  \/ BookTimeout
  \/ SearchTimeout
  \/ MinimaxEnter
  \/ MinimaxMove
  \/ MinimaxResume
  \/ SearchResolved

Spec == Init /\ [][Next]_vars

----------------------------------------------------------------------------
(* The hook with short searches and with FENs that are not well formed:    *)
(* the positions handed in are over or leave the side to move one move     *)

FacadeOffers == {Blocked, Lost, Mated, Stalemate, KnightCheck}

MaxFacadeRequests == 2

NextFacade ==
  \/ \E fen \in {<< >>} \cup {<< p >> : p \in FacadeOffers} :
       Requests < MaxFacadeRequests /\ RequestMove(fen)
  \/ \E fen \in FacadeOffers : UpdatePosition(fen)
  \/ \E operation \in Loaders : LoadThrows(operation)
  \/ BookTimeout
  \/ SearchTimeout
  \/ MinimaxEnter
  \/ MinimaxMove
  \/ MinimaxResume
  \/ SearchResolved

SpecFacade == Init /\ [][NextFacade]_vars

----------------------------------------------------------------------------
(* The search on its own: minimax called on a position with a depth and a  *)
(* window, White the maximizing player                                     *)

MaxDepth == 3

SearchPositions ==
  {MateInOne, MateInOneBlack, Lost, PawnG7, BareKings, Tactics, TacticsRook}

Windows == { << -Infinity, Infinity >>, << -50, 50 >>, << 0, Infinity >> }

InitSearch ==
  /\ game \in {Load(p) : p \in SearchPositions}
  /\ \E depth \in 0..MaxDepth, w \in Windows :
       stack = << Called(depth, w[1], w[2], Turn(game) = "w", game, 0, 0) >>
  /\ evalCache = EmptyCache
  /\ status = "Ready"
  /\ lastMove = Null
  /\ isLoading = FALSE
  /\ timers = << >>
  /\ ret = << >>
  /\ delivered = << >>
  /\ listings = 0
  /\ applies = 0
  /\ evaluated = << >>
  /\ thrown = << >>

NextSearch == MinimaxEnter \/ MinimaxMove \/ MinimaxResume

SpecSearch == InitSearch /\ [][NextSearch]_vars

----------------------------------------------------------------------------
(* The evaluator on its own: evaluateBoard called on the hook's game and   *)
(* cache, between position updates                                         *)

\* the calls of evaluateBoard made in a row
MaxEvaluations == 4

\* a direct call of evaluateBoard: what the calls since the last other
\* operation returned is kept, the cache is the one the call leaves
Evaluated(e) ==
  /\ evaluated' = Append(evaluated,
       [fen |-> Fen(game), score |-> e.score, hit |-> e.hit])
  /\ evalCache' = e.cache

EvaluateBoard ==
  /\ Idle
  /\ Len(evaluated) < MaxEvaluations
  /\ Evaluated(evaluateBoard(game, evalCache))
  /\ UNCHANGED << game, status, lastMove, isLoading, timers, stack, ret,
                  delivered, listings, applies, thrown >>

\* the pairs of positions that differ by one passed pawn: the White pawn on
\* h6, which countPassedPawns would count, or h4; the Black pawn on h3,
\* which countPassedPawns would count, or h5
PassedPawns ==
  { [base |-> PawnsOnA(turn), with |-> WithPawn(turn, x[1], x[2]),
     square |-> Sq(7, x[1]), sign |-> x[3]] :
      turn \in {"w", "b"},
      x \in { <<6, "P", 1>>, <<4, "P", 1>>, <<3, "p", -1>>, <<5, "p", -1>> } }

EvalPositions ==
  {InitialPosition, MateInOne, MateInOneBlack, Lost, PawnG2, PawnG7,
   BareKings, Mated, MatedBlack, Stalemate, KnightCheck, FiftyMoves,
   RookCheck, RookCheckBlack}
  \cup {p.base : p \in PassedPawns} \cup {p.with : p \in PassedPawns}

NextEval ==
  \/ EvaluateBoard
  \/ \E fen \in EvalPositions : UpdatePosition(fen)

SpecEval == Init /\ [][NextEval]_vars

----------------------------------------------------------------------------
(* The opening: the engine plays White from the initial position.  The     *)
(* caller keeps a board of its own, makes on it each move the engine       *)
(* delivers and Black's reply, and hands the position to the hook, as the  *)
(* override of getEngineMove or through updatePosition.                    *)

\* Black's replies
BlackReplies == << "e5", "d5", "Nf6" >>

\* chess.move on the caller's board, by notation
Played(pos, legalMoves, san) == PosAfter(pos, Find(legalMoves, Matches(legalMoves, san)))

\* the caller's board after the engine's move m and Black's n-th reply
Replied(pos, n) == Played(pos, Verbose(pos, LegalMoves(pos), 0), BlackReplies[n])

\* the caller's board once the first n moves delivered and the replies to
\* them are made
RECURSIVE CallerPosition(_)
CallerPosition(n) ==
  IF n = 0 THEN InitialPosition
  ELSE Replied(PosAfter(CallerPosition(n - 1), delivered[n].move), n)

MaxOpeningRequests == 3

\* the caller may ask for the next move: every promise is resolved, with a move
NextRequestDue ==
  /\ Idle
  /\ Requests = Len(delivered)
  /\ Len(delivered) < MaxOpeningRequests
  /\ \A n \in 1..Len(delivered) : delivered[n].move # Null

\* the caller hands its position to the hook through updatePosition
OpeningUpdate ==
  /\ NextRequestDue
  /\ UpdatePosition(CallerPosition(Len(delivered)))

\* the caller asks for the next move, with its position as the override, or
\* with none when the hook's game is at that position
OpeningRequest ==
  /\ NextRequestDue
  /\ \/ RequestMove(<< CallerPosition(Len(delivered)) >>)
     \/ /\ game.pos = CallerPosition(Len(delivered))
        /\ RequestMove(<< >>)

NextOpening ==
  \/ OpeningUpdate
  \/ OpeningRequest
  \/ BookTimeout
  \/ SearchTimeout
  \/ MinimaxEnter
  \/ MinimaxMove
  \/ MinimaxResume
  \/ SearchResolved

SpecOpening == Init /\ [][NextOpening]_vars

----------------------------------------------------------------------------
(* The book on its own: getEngineMove() called on games with up to nine    *)
(* moves made, the searches it sets up left pending                        *)

\* the lines played: both scripts move by move, a line off the scripts, and
\* a line that plays scripted moves early
BookLines ==
  << << "g3", "g6", "Bg2", "Bg7", "d3", "d6", "Nd2", "Nd7", "e3" >>,
     << "Nc3", "Nc6", "Nf3", "Nf6", "Rb1", "Rb8", "Rg1", "Rg8", "a3" >>,
     << "d3", "d6", "Nd2", "Nd7", "Ngf3", "Ngf6", "g3", "g6", "Bg2" >> >>

\* game.move(m) for the legal move m of the notation san
MoveBySan(g, legalMoves, san) ==
  Move(g, Find(legalMoves, Matches(legalMoves, san)))

\* the game after one more move, given by its notation
Advanced(g, san) == MoveBySan(g, VerboseMoves(g, 0), san)

\* the next move of line l is made in the game, before any call of
\* getEngineMove
LineMove(l) ==
  /\ timers = << >>
  /\ delivered = << >>
  /\ Len(game.history) < Len(BookLines[l])
  /\ \A i \in 1..Len(game.history) : game.history[i].move.san = BookLines[l][i]
  /\ game' = Advanced(game, BookLines[l][Len(game.history) + 1])
  /\ UNCHANGED << evalCache, status, lastMove, isLoading, timers, stack, ret,
                  delivered, listings, applies, evaluated, thrown >>

MaxBookRequests == 2

NextBook ==
  \/ \E l \in 1..Len(BookLines) : LineMove(l)
  \/ Requests < MaxBookRequests /\ RequestMove(<< >>)
  \/ BookTimeout

SpecBook == Init /\ [][NextBook]_vars

----------------------------------------------------------------------------
(* The engine playing both sides: the hook is built on a position, and the *)
(* caller asks for move after move, each once the last promise is          *)
(* resolved, with no position or with the position Caged                   *)

MaxSelfPlayRequests == 7

InitSelfPlay ==
  /\ game = Load(CagedAhead)
  /\ evalCache = EmptyCache
  /\ status = "Ready"
  /\ lastMove = Null
  /\ isLoading = FALSE
  /\ timers = << >>
  /\ stack = << >>
  /\ ret = << >>
  /\ delivered = << >>
  /\ listings = 0
  /\ applies = 0
  /\ evaluated = << >>
  /\ thrown = << >>

SelfPlayRequest ==
  /\ timers = << >>
  /\ Requests < MaxSelfPlayRequests
  /\ \E fen \in { << >>, << Caged >> } : RequestMove(fen)

NextSelfPlay ==
  \/ SelfPlayRequest
  \/ SearchTimeout
  \/ MinimaxEnter
  \/ MinimaxMove
  \/ MinimaxResume
  \/ SearchResolved

SpecSelfPlay == InitSelfPlay /\ [][NextSelfPlay]_vars

----------------------------------------------------------------------------
(* Claims about the search                                                 *)

\* the game is as it was when the call that returned r was entered
AsEntered(r) == Snapshot(game) = r.entered.game

\* the call that returned r was on a position that was not game over
NonTerminal(r) == AsEntered(r) /\ ~IsGameOver(game)

\* C1: a call of minimax with depth >= 1 on a position that is not game over
\* returns a move, never null
C1_NonLeafReturnsMove ==
  \A k \in 1..Len(ret) :
    (ret[k].call.depth >= 1 /\ NonTerminal(ret[k])) => ret[k].move # Null

\* game g has a legal move that mates at once
HasMateInOne(g) ==
  LET ms == LegalMoves(g.pos)
  IN  \E k \in 1..Len(ms) : IsCheckmate(Move(g, ms[k]))

\* r is what a call at the root returned that had depth >= 1, the full
\* window and the side to move as the maximizing or minimizing player
RootCall(r) ==
  /\ stack = << >>
  /\ r.call.depth >= 1
  /\ r.call.alpha = -Infinity
  /\ r.call.beta = Infinity
  /\ AsEntered(r)
  /\ r.call.maximizingPlayer = (Turn(game) = "w")

\* C5: where the side to move can mate at once, the call at the root returns
\* a move that mates at once, with score +Infinity for White and -Infinity
\* for Black
C5_MateInOneReturned ==
  \A k \in 1..Len(ret) :
    (RootCall(ret[k]) /\ HasMateInOne(game)) =>
      /\ ret[k].move # Null
      /\ IsCheckmate(Move(game, ret[k].move))
      /\ ret[k].score = IF Turn(game) = "w" THEN Infinity ELSE -Infinity

\* C9: when a call of minimax returns, the game (position and history) is as
\* it was when the call was entered; and all through the search the moves
\* applied and not yet undone are as many as the call being run is deep (a
\* call counts until its caller has taken its result)
C9_AppliesUndosNested ==
  /\ \A k \in 1..Len(ret) : Snapshot(game) = ret[k].entered.game
  /\ stack # << >> =>
       Len(game.history) =
         Len(stack[1].entered.game.history) + (Len(stack) - 1) + Len(ret)

\* a call two levels down has just returned by the early return on a mating
\* move, and the move is undone
C9_Witness ==
  /\ Len(stack) = 2
  /\ ret # << >>
  /\ ret[1].move # Null
  /\ ret[1].score \in {Infinity, -Infinity}
  /\ IsCheckmate(Move(game, ret[1].move))
  /\ applies > ret[1].entered.applies

\* C10: a call of minimax with depth 0 on a position that is not game over
\* returns the evaluation of the position and no move, lists no moves and
\* applies none
C10_DepthZeroEvaluates ==
  /\ \A k \in 1..Len(ret) :
       (ret[k].call.depth = 0 /\ NonTerminal(ret[k])) =>
         /\ ret[k].move = Null
         /\ ret[k].score = evaluateBoard(game, EmptyCache).score
         /\ listings = ret[k].entered.listings
         /\ applies = ret[k].entered.applies
  /\ \A k \in 1..Len(stack) : stack[k].call.depth = 0 => stack[k].pc = "entry"

\* a call with depth 0, made by the search on a position that is not game
\* over, has returned
C10_Witness ==
  /\ ret # << >>
  /\ ret[1].call.depth = 0
  /\ NonTerminal(ret[1])
  /\ stack # << >>

\* minimax has just listed the moves of the game and ordered them
JustOrdered == stack # << >> /\ Top.pc = "loop" /\ Top.i = 1

\* ordered holds the moves of the list, each once, in descending order of
\* OrderScore, the moves of equal score in the order of the list
StablyOrdered(moves, ordered) ==
  /\ Len(ordered) = Len(moves)
  /\ {ordered[k].ref[2] : k \in 1..Len(ordered)} = 1..Len(moves)
  /\ \A k \in 1..Len(ordered) : ordered[k] = moves[ordered[k].ref[2]]
  /\ \A k \in 1..Len(ordered) - 1 :
       \/ OrderScore(ordered[k]) > OrderScore(ordered[k + 1])
       \/ /\ OrderScore(ordered[k]) = OrderScore(ordered[k + 1])
          /\ ordered[k].ref[2] < ordered[k + 1].ref[2]

\* C15: orderMoves returns the moves of its argument, none added, dropped or
\* duplicated, in non-increasing order of the score 10 * value of the
\* captured piece + value of the promotion piece + 50 for a check mark, and
\* moves of equal score keep the order they had in the argument.
C15_OrderStablePermutation ==
  JustOrdered => StablyOrdered(VerboseMoves(game, listings), Top.moves)

\* the moves ordered hold a capture with promotion and a check, moves of
\* equal score among them, and their order is not the order of the list
C15_Witness ==
  /\ JustOrdered
  /\ \E i \in 1..Len(Top.moves) :
       Top.moves[i].captured # "" /\ Top.moves[i].promotion # ""
  /\ \E j \in 1..Len(Top.moves) : Top.moves[j].suf = "+"
  /\ \E k \in 1..Len(Top.moves) - 1 :
       OrderScore(Top.moves[k]) = OrderScore(Top.moves[k + 1])
  /\ \E k \in 1..Len(Top.moves) : Top.moves[k].ref[2] # k

\* the value of the piece a move captures, 0 when it captures none
CapturedValue(m) == IF m.captured # "" THEN PIECE_VALUES[m.captured] ELSE 0

\* the k-th move captures a piece of more value than any other move does
CapturesMost(moves, k) ==
  \A j \in 1..Len(moves) :
    j # k => CapturedValue(moves[k]) > CapturedValue(moves[j])

\* C16 as stated: a move that captures a piece of strictly more value than
\* the piece any other move captures is the first of the ordered moves,
\* whatever promotions and checks the other moves carry.
C16_HighestCaptureFirst ==
  JustOrdered =>
    \A k \in 1..Len(Top.moves) : CapturesMost(Top.moves, k) => k = 1

\* a capture of a knight with promotion is among the moves
KnightTakenPromoting(moves) ==
  \E j \in 1..Len(moves) : moves[j].captured = "n" /\ moves[j].promotion # ""

\* C16 amended: a move that captures a piece of strictly more value than
\* the piece any other move captures is the first of the ordered moves,
\* whatever promotions and checks the other moves carry, unless it captures
\* a bishop and another move captures a knight and promotes: ten times the
\* 10 points between bishop and knight are less than a promotion is worth.
C16_HighestCaptureFirstButBishop ==
  JustOrdered =>
    \A k \in 1..Len(Top.moves) :
      (/\ CapturesMost(Top.moves, k)
       /\ ~(Top.moves[k].captured = "b" /\ KnightTakenPromoting(Top.moves)))
        => k = 1

\* the first of the ordered moves captures the most, and a move behind it
\* captures, promotes to a queen and checks
C16_Witness ==
  /\ JustOrdered
  /\ CapturesMost(Top.moves, 1)
  /\ \E j \in 2..Len(Top.moves) :
       /\ Top.moves[j].captured # ""
       /\ Top.moves[j].promotion = "q"
       /\ Top.moves[j].suf = "+"

\* the sum of f over the set S
RECURSIVE SumOver(_, _)
SumOver(f, S) ==
  IF S = {} THEN 0
  ELSE LET x == CHOOSE x \in S : TRUE IN f[x] + SumOver(f, S \ {x})

\* the greatest and the least of a set of scores
Greatest(scores) == CHOOSE x \in scores : \A y \in scores : y <= x

Least(scores) == CHOOSE x \in scores : \A y \in scores : x <= y

\* minimax with no window, no ordering and no early return: a position at
\* depth 0 or game over is scored by evaluateBoard, any other by the
\* greatest score of its moves for the maximizing player and the least for
\* the minimizing player
RECURSIVE PlainMinimax(_, _, _)
PlainMinimax(g, depth, maximizingPlayer) ==
  IF depth = 0 \/ IsGameOver(g) THEN evaluateBoard(g, EmptyCache).score
  ELSE LET moves == LegalMoves(g.pos)
           scores == { PlainMinimax(Move(g, moves[k]), depth - 1, ~maximizingPlayer) :
                         k \in 1..Len(moves) }
       IN  IF maximizingPlayer THEN Greatest(scores) ELSE Least(scores)

\* the positions of the tree of the given depth whose moves the plain
\* minimax lists
RECURSIVE PlainListings(_, _)
PlainListings(g, depth) ==
  IF depth = 0 \/ IsGameOver(g) THEN 0
  ELSE LET moves == LegalMoves(g.pos)
           below == [k \in 1..Len(moves) |-> PlainListings(Move(g, moves[k]), depth - 1)]
       IN  1 + SumOver(below, 1..Len(moves))

\* r is what a call at the root returned that had the full window and
\* White to move as the maximizing player
FullWindowCall(r) ==
  /\ stack = << >>
  /\ r.call.alpha = -Infinity
  /\ r.call.beta = Infinity
  /\ AsEntered(r)
  /\ r.call.maximizingPlayer = (Turn(game) = "w")

\* C24: minimax(d, -Infinity, Infinity, White to move) with d in 0..3
\* returns the score of the plain minimax of depth d, with leaves scored by
\* evaluateBoard: the window, the early return on a mating move and the
\* order of the moves do not change the score at the root.
C24_RootScoreIsMinimax ==
  \A k \in 1..Len(ret) :
    (FullWindowCall(ret[k]) /\ ret[k].call.depth \in 0..3) =>
      ret[k].score = PlainMinimax(game, ret[k].call.depth, Turn(game) = "w")

\* a call at the root with depth 3 and the full window has returned a score
\* that is neither a mate nor a draw, and has listed the moves of fewer
\* positions than the plain minimax does: the window has cut moves off
C24_Witness ==
  /\ ret # << >>
  /\ FullWindowCall(ret[1])
  /\ ret[1].call.depth = 3
  /\ ret[1].score \notin {-Infinity, 0, Infinity}
  /\ listings < PlainListings(game, 3)

----------------------------------------------------------------------------
(* Claims about the facade                                                 *)

\* nothing of any call of getEngineMove is left to run
Quiet == Idle /\ timers = << >>

\* C2: every call of getEngineMove that sets the busy flag clears it: once
\* its timer has run and nothing is left to run, isLoading is false
C2_BusyCleared == Quiet => ~isLoading

\* C3: when getEngineMove hands a move to its caller, by the book or by the
\* search, the move is applied to the game, lastMove is the move and the
\* status names it
C3_DeliveredMoveApplied ==
  \A k \in 1..Len(delivered) :
    delivered[k].move # Null =>
      /\ delivered[k].applied
      /\ delivered[k].lastMove = delivered[k].move
      /\ delivered[k].status \in
           { "Engine moved: " \o delivered[k].move.san,
             "Engine moved: " \o delivered[k].move.san \o " (Hippo opening)" }

\* C7: once the book has missed and the search chose the move, no later
\* call of getEngineMove in that game (the game's history still holds moves)
\* takes its move from the book
C7_NoBookAfterMiss ==
  \A i, j \in 1..Len(delivered) :
    (i < j /\ delivered[i].branch = "search" /\ delivered[j].ply > 0) =>
      delivered[j].branch # "book"

\* the arguments of getEngineMove: none, or a position
Arguments == {<< >>} \cup {<< p >> : p \in FacadeOffers}

\* C11: getEngineMove on a game that is over, after the load of its
\* argument if it has one, resolves with null at once: the book is not
\* consulted and no search is set up, the busy flag and lastMove stay as
\* they are, no move is applied, and the status is "Game Over: Checkmate"
\* when the side to move is checkmated and "Game Over: Draw" in every other
\* case, a stalemate included.
C11_GameOverRequest ==
  [][\A fen \in Arguments :
       (RequestMove(fen) /\ IsGameOver(game')) =>
         /\ delivered' = Append(delivered, delivered'[Len(delivered')])
         /\ delivered'[Len(delivered')].move = Null
         /\ listings' = listings /\ timers' = timers /\ stack' = << >>
         /\ isLoading' = isLoading /\ lastMove' = lastMove
         /\ game'.history = (IF fen = << >> THEN game.history ELSE << >>)
         /\ status' = (IF IsCheckmate(game') THEN "Game Over: Checkmate"
                       ELSE "Game Over: Draw")]_vars

\* getEngineMove has been called on a checkmate and on a draw in which the
\* side to move is in check
C11_Witness ==
  /\ InCheck(game)
  /\ \E i, j \in 1..Len(delivered) :
       /\ delivered[i].status = "Game Over: Checkmate"
       /\ delivered[j].status = "Game Over: Draw"
       /\ delivered[j].move = Null
       /\ i < j

\* the calls of getEngineMove that await their search: the timer is set, or
\* minimax runs, or its result waits for the rest of getEngineMove
InFlight == Requests - Len(delivered)

\* C12: the calls of getEngineMove are serialized: a call made while an
\* earlier one awaits its search does not set up a search of its own, so at
\* most one call is in flight at any time.
C12_RequestsSerialized == InFlight <= 1

\* C13: after updatePosition(fen) with a well-formed FEN the game is at the
\* position of that FEN with no moves played, the cache is empty and the
\* status is "Position updated"; the busy flag and lastMove are as before.
C13_UpdatePositionEffect ==
  [][\A fen \in FacadeOffers :
       UpdatePosition(fen) =>
         /\ game' = [pos |-> fen, history |-> << >>]
         /\ evalCache' = << >>
         /\ status' = "Position updated"
         /\ isLoading' = isLoading
         /\ lastMove' = lastMove]_vars

\* updatePosition has been called with the engine busy and a move made
C13_Witness ==
  /\ status = "Position updated"
  /\ game.history = << >>
  /\ evalCache = << >>
  /\ isLoading
  /\ lastMove # Null

\* the script entry getHippoMove looks for in game g
ScriptEntry(g) ==
  (IF Turn(g) = "w" THEN HIPPO_OPENING_WHITE ELSE HIPPO_OPENING_BLACK)
    [Len(g.history) \div 2 + 1]

\* the places in the legal moves of the moves whose short or long notation
\* is the entry
EntryPlaces(legalMoves, entry) ==
  {k \in 1..Len(legalMoves) :
     legalMoves[k].san = entry \/ Lan(legalMoves[k]) = entry}

\* the book gave the move in place k of the legal moves: it is what the
\* promise is resolved with and what the book's timer holds
BookGave(legalMoves, k) ==
  /\ timers' = Append(timers, [kind |-> "book", hippoMove |-> legalMoves[k]])
  /\ delivered' = Append(delivered, delivered'[Len(delivered')])
  /\ delivered'[Len(delivered')].move = legalMoves[k]

\* the book gave no move: the search is set up
BookGaveNone ==
  /\ timers' = Append(timers, [kind |-> "search", hippoMove |-> Null])
  /\ delivered' = delivered

\* what getHippoMove is to give on game g with the legal moves listed
BookContract(g, legalMoves) ==
  IF Len(g.history) < 8 /\ EntryPlaces(legalMoves, ScriptEntry(g)) # {}
  THEN \E k \in EntryPlaces(legalMoves, ScriptEntry(g)) : BookGave(legalMoves, k)
  ELSE BookGaveNone

\* C17: getHippoMove returns a move only when fewer than 8 moves have been
\* made in the game, and then a legal move whose short or long notation is
\* the entry of the script of the side to move at the index floor(number of
\* moves / 2); in every other case, with 8 moves made or more or with no
\* legal move of that notation, it returns null, and it never changes the
\* position.
C17_BookLookup ==
  [][(RequestMove(<< >>) /\ ~IsGameOver(game)) =>
       /\ game' = game
       /\ BookContract(game, VerboseMoves(game, listings + 1))]_vars

\* getEngineMove was called with eight moves made and the entry of the
\* script legal: the search is set up
C17_Witness ==
  /\ Len(game.history) = 8
  /\ EntryPlaces(VerboseMoves(game, 0), ScriptEntry(game)) # {}
  /\ timers # << >>
  /\ timers[1].kind = "search"

\* the script of the side that made the move
ScriptOf(move) ==
  IF ColorOf(move.piece) = "w" THEN HIPPO_OPENING_WHITE ELSE HIPPO_OPENING_BLACK

\* C29: a move the book gives is the entry of a script at an index from 0 to
\* 3, the index floor(number of moves made / 2); no move of the book has
\* the notation of an entry at index 4 to 7 of either script (e3, Ngf3, b3,
\* Bb2; e6, Ngf7, b6, Bb7).
C29_BookIndexBelowFour ==
  \A n \in 1..Len(delivered) :
    delivered[n].branch = "book" =>
      /\ delivered[n].ply \div 2 \in 0..3
      /\ delivered[n].move.san = ScriptOf(delivered[n].move)[delivered[n].ply \div 2 + 1]
      /\ \A i \in 4..7 :
           /\ delivered[n].move.san # HIPPO_OPENING_WHITE[i + 1]
           /\ delivered[n].move.san # HIPPO_OPENING_BLACK[i + 1]

\* the book has given the entry at index 3, the last it can give, with six
\* or seven moves made
C29_Witness ==
  \E n \in 1..Len(delivered) :
    /\ delivered[n].branch = "book"
    /\ delivered[n].ply \div 2 = 3
    /\ delivered[n].move.san = ScriptOf(delivered[n].move)[4]

C19_NoMoveFromSearch ==
  [][(SearchResolved /\ ret[1].move = Null /\ ~IsGameOver(game)) =>
       /\ delivered' = Append(delivered, delivered'[Len(delivered')])
       /\ delivered'[Len(delivered')].move = Null
       /\ game' = game
       /\ lastMove' = lastMove
       /\ ~isLoading'
       /\ status' = "No valid moves available"]_vars

\* the search has returned no move for a game that is not over
C19_Witness ==
  /\ Quiet
  /\ delivered # << >>
  /\ delivered[Len(delivered)].move = Null
  /\ delivered[Len(delivered)].branch = "search"
  /\ status = "No valid moves available"
  /\ ~IsGameOver(game)
  /\ HasLegalMove(game.pos)

\* the entries << fen, score >> of the Map
CacheEntries(cache) ==
  UNION { { cache[r][k] : k \in 1..Len(cache[r]) } : r \in 1..Len(cache) }

\* C25: a step of getEngineMove, with or without a position, of its timers
\* and of the search deletes no entry of evalCache and changes no stored
\* score; it adds entries only for FENs the cache has not, and only the
\* entry of the position it evaluates, which is not game over.  Only
\* updatePosition removes entries.
C25_CacheOnlyGrows ==
  [][ (\A fen \in FacadeOffers : ~UpdatePosition(fen)) =>
        \/ evalCache' = evalCache
        \/ /\ CacheEntries(evalCache) \subseteq CacheEntries(evalCache')
           /\ \A e \in CacheEntries(evalCache') \ CacheEntries(evalCache) :
                /\ ~CacheHas(evalCache, e[1])
                /\ e[1] = Fen(game)
                /\ ~IsGameOver(game) ]_vars

\* a search has evaluated a position that is game over, during a request
\* that followed another, and the cache holds entries but none for it
C25_Witness ==
  /\ delivered # << >>
  /\ stack # << >>
  /\ ret # << >>
  /\ ret[1].move = Null
  /\ IsGameOver(game)
  /\ evalCache # EmptyCache
  /\ ~CacheHas(evalCache, Fen(game))

\* the call of evaluateBoard that has just returned r, on the game as it is
EvaluationOf(r) ==
  /\ r.move = Null
  /\ AsEntered(r)
  /\ r.call.depth = 0 \/ IsGameOver(game)

\* C26: a score that evaluateBoard takes from the cache is the score it
\* would compute for the game as it is: no sequence of getEngineMove,
\* updatePosition and search steps makes the cache give a stale score, not
\* even for a position that has become a draw by its history while its FEN
\* was in the cache.
C26_CacheNeverStale ==
  \A k \in 1..Len(ret) :
    (EvaluationOf(ret[k]) /\ CacheHas(evalCache, Fen(game))) =>
      ret[k].score = evaluateBoard(game, EmptyCache).score

\* move is among the legal moves of game g
LegalIn(g, move) ==
  \E k \in 1..Len(LegalMoves(g.pos)) :
    /\ LegalMoves(g.pos)[k].from = move.from
    /\ LegalMoves(g.pos)[k].to = move.to
    /\ LegalMoves(g.pos)[k].promotion = move.promotion

\* C27: once the search of getEngineMove has returned, the next step is the
\* rest of that getEngineMove, on the game the search was called on: no
\* other operation comes in between, the move returned is a legal move of
\* the game and it is the move that is made, also when updatePosition or
\* another getEngineMove ran while the timer was pending.
C27_SearchMoveLegal ==
  [][ (stack = << >> /\ ret # << >>) =>
        /\ AsEntered(ret[1])
        /\ ret' = << >>
        /\ IF ret[1].move # Null
           THEN /\ LegalIn(game, ret[1].move)
                /\ game' = Move(game, ret[1].move)
                /\ lastMove' = ret[1].move
           ELSE game' = game ]_vars

\* the search of one getEngineMove has returned a move while the timer of
\* another getEngineMove, called during the delay of the first, is pending
C27_Witness ==
  /\ stack = << >>
  /\ ret # << >>
  /\ ret[1].move # Null
  /\ timers # << >>

----------------------------------------------------------------------------
(* The claims about the evaluator                                          *)

\* evaluateBoard has just been called on position pos with no score cached
\* for it
FreshlyEvaluated(pos) ==
  /\ evaluated # << >>
  /\ evaluated[1].fen = Fen(Load(pos))
  /\ ~evaluated[1].hit

\* C4 as stated: evaluateBoard on the initial position, with nothing cached,
\* returns 0.
C4_InitialScoreZero ==
  FreshlyEvaluated(InitialPosition) => evaluated[1].score = 0

\* C4 amended: evaluateBoard on the initial position, with nothing cached,
\* returns 20: material and position bonuses cancel, and what is left is the
\* mobility of the side to move, White's 20 legal moves.
C4_InitialScoreIsMobility ==
  FreshlyEvaluated(InitialPosition) =>
    /\ MoveCount(Load(InitialPosition)) = 20
    /\ BoardScore(InitialPosition.board, 0, 63) = 0
    /\ evaluated[1].score = 20

C4_Witness == FreshlyEvaluated(InitialPosition)

\* the mobility term of the score, signed by the side to move
MobilityTerm(g) == IF Turn(g) = "w" THEN MoveCount(g) ELSE -MoveCount(g)

\* C8: of two positions that differ by one passed pawn, the one with the
\* pawn scores 50 more (White's pawn) or 50 less (Black's pawn) than the
\* other, over and above the pawn's material value, its position bonus and
\* the change in mobility.
C8_PassedPawnContribution ==
  \A p \in PassedPawns :
    FreshlyEvaluated(p.with) =>
      evaluated[1].score - evaluateBoard(Load(p.base), EmptyCache).score
        = SquareScore(p.with.board, p.square)
          + (MobilityTerm(Load(p.with)) - MobilityTerm(Load(p.base)))
          + p.sign * 50

\* C14 as stated: of two calls of evaluateBoard on the same position with no
\* operation in between, the second returns the score of the first and
\* takes it from the cache.
C14_SecondCallFromCache ==
  \A k \in 2..Len(evaluated) :
    /\ evaluated[k].score = evaluated[k - 1].score
    /\ evaluated[k].hit

\* C14 amended: of two calls of evaluateBoard on the same position with no
\* operation in between, the second returns the score of the first; it
\* takes it from the cache when the game is not over, and when the game is
\* over, by checkmate or by a draw, and the first call did not find the FEN
\* in the cache, the cache still holds no score for the position and the
\* second call tells the terminal state again.
C14_SecondCallSameScore ==
  \A k \in 2..Len(evaluated) :
    /\ evaluated[k].score = evaluated[k - 1].score
    /\ ~IsGameOver(game) => evaluated[k].hit
    /\ (IsGameOver(game) /\ ~evaluated[1].hit) =>
         (~evaluated[k].hit /\ ~CacheHas(evalCache, Fen(game)))

\* evaluateBoard has been called twice in a row on a game that goes on
C14_Witness ==
  /\ Len(evaluated) >= 2
  /\ evaluated[2].hit
  /\ evaluated[2].fen = Fen(game)
  /\ ~IsGameOver(game)

\* C20: evaluateBoard on a game that is over returns -Infinity for a
\* checkmate with White to move, Infinity for a checkmate with Black to
\* move, and 0 for every draw, a stalemate included, whatever the material
\* on the board; called directly or by the search.
C20_TerminalScores ==
  /\ \A k \in 1..Len(evaluated) :
       /\ IsCheckmate(game) =>
            evaluated[k].score = (IF Turn(game) = "w" THEN -Infinity ELSE Infinity)
       /\ (~IsCheckmate(game) /\ IsDraw(game)) => evaluated[k].score = 0
  /\ \A k \in 1..Len(ret) :
       EvaluationOf(ret[k]) =>
         /\ IsCheckmate(game) =>
              ret[k].score = (IF Turn(game) = "w" THEN -Infinity ELSE Infinity)
         /\ (~IsCheckmate(game) /\ IsDraw(game)) => ret[k].score = 0

\* the king-safety term of the score, signed by the side to move
KingSafetyTerm(g) ==
  IF InCheck(g) THEN (IF Turn(g) = "w" THEN -50 ELSE 50) ELSE 0

\* the value of a piece by its type
ValueOfType ==
  [p |-> 100, n |-> 320, b |-> 330, r |-> 500, q |-> 900, k |-> 20000]

\* the bonus of a piece on a square: the entry rank * 8 + file of the table
\* of its type, counted from the end of the table for a Black piece, and 0
\* for a rook and a queen
BonusOfTable(table, color, rank, file) ==
  IF color = "w" THEN table[rank * 8 + file + 1] ELSE table[64 - (rank * 8 + file)]

BonusOnSquare(piece, rank, file) ==
  CASE TypeOf(piece) = "p" -> BonusOfTable(PAWN_SQUARE_TABLE, ColorOf(piece), rank, file)
    [] TypeOf(piece) = "n" -> BonusOfTable(KNIGHT_SQUARE_TABLE, ColorOf(piece), rank, file)
    [] TypeOf(piece) = "b" -> BonusOfTable(BISHOP_SQUARE_TABLE, ColorOf(piece), rank, file)
    [] TypeOf(piece) = "k" -> BonusOfTable(KING_SQUARE_TABLE, ColorOf(piece), rank, file)
    [] TypeOf(piece) \in {"r", "q"} -> 0

\* the sum over the occupied squares of sign * (value + bonus)
MaterialAndPosition(board) ==
  LET Occupied == { x \in (0..7) \X (0..7) : board[x[1] * 8 + x[2] + 1] # "." }
      term == [x \in Occupied |->
                LET piece == board[x[1] * 8 + x[2] + 1]
                IN  (IF ColorOf(piece) = "w" THEN 1 ELSE -1)
                    * (ValueOfType[TypeOf(piece)] + BonusOnSquare(piece, x[1], x[2]))]
  IN  SumOver(term, Occupied)

\* C21: for a position that is not terminal, what evaluateBoard returns less
\* its mobility and king-safety terms is the sum over the occupied squares
\* of sign * (value + bonus): sign 1 for White and -1 for Black, value 100,
\* 320, 330, 500, 900, 20000 for pawn, knight, bishop, rook, queen, king,
\* bonus the table entry at rank * 8 + file (from the end of the table for
\* Black) for pawn, knight, bishop and king, 0 for rook and queen.
C21_MaterialAndPosition ==
  \A k \in 1..Len(evaluated) :
    ~IsGameOver(game) =>
      evaluated[k].score - MobilityTerm(game) - KingSafetyTerm(game)
        = MaterialAndPosition(game.pos.board)

\* evaluateBoard has computed the score of a game that goes on, with a rook
\* or a queen on the board and a Black piece on a square with a bonus
C21_Witness ==
  /\ evaluated # << >>
  /\ ~evaluated[1].hit
  /\ ~IsGameOver(game)
  /\ \E s \in 0..63 : At(game.pos.board, s) \in {"r", "q", "R", "Q"}
  /\ \E s \in 0..63 :
       /\ At(game.pos.board, s) \in BlackPieces
       /\ getPieceSquareValue(At(game.pos.board, s), s) # 0

\* the legal moves the other side would have were it to move
OtherSideCount(g) ==
  Len(LegalMoves([g.pos EXCEPT !.turn = Other(g.pos.turn), !.ep = -1]))

\* C22: the mobility term of the score of a position that is not terminal
\* is +n with White to move and -n with Black to move, n the number of
\* legal moves of the side to move; the moves of the other side are not
\* counted.
C22_MobilityOfSideToMove ==
  \A k \in 1..Len(evaluated) :
    ~IsGameOver(game) =>
      evaluated[k].score - BoardScore(game.pos.board, 0, 63) - KingSafetyTerm(game)
        = (IF game.pos.turn = "w" THEN Len(LegalMoves(game.pos))
                                  ELSE -Len(LegalMoves(game.pos)))

\* evaluateBoard has computed the score of a game that goes on with Black
\* to move, out of check, and White with another number of moves
C22_Witness ==
  /\ evaluated # << >>
  /\ ~evaluated[1].hit
  /\ ~IsGameOver(game)
  /\ game.pos.turn = "b"
  /\ ~InCheck(game)
  /\ OtherSideCount(game) \notin {0, Len(LegalMoves(game.pos))}

\* C23: the king-safety term of the score of a position that is not
\* terminal is -50 when White is to move and in check, +50 when Black is to
\* move and in check, and 0 when the side to move is not in check.
C23_KingSafety ==
  \A k \in 1..Len(evaluated) :
    ~IsGameOver(game) =>
      evaluated[k].score - BoardScore(game.pos.board, 0, 63) - MobilityTerm(game)
        = CASE game.pos.turn = "w" /\ KingAttacked(game.pos.board, "w") -> -50
            [] game.pos.turn = "b" /\ KingAttacked(game.pos.board, "b") -> 50
            [] OTHER -> 0

\* evaluateBoard has computed the score of a game that goes on with Black
\* to move and in check
C23_Witness ==
  /\ evaluated # << >>
  /\ ~evaluated[1].hit
  /\ ~IsGameOver(game)
  /\ game.pos.turn = "b"
  /\ KingAttacked(game.pos.board, "b")

\* the piece of the other colour
Recoloured(piece) ==
  IF piece = "." THEN "." ELSE PieceOf(TypeOf(piece), Other(ColorOf(piece)))

\* the board with rank r and rank 7 - r exchanged and the colours exchanged
ColourMirror(board) ==
  [i \in 1..64 |-> Recoloured(board[(7 - ((i - 1) \div 8)) * 8 + ((i - 1) % 8) + 1])]

\* C28: for pawn, knight, bishop and king and every square, the bonus of a
\* Black piece on rank r, file f is the bonus of a White piece of the type
\* on rank 7 - r, file f; and the material and position part of the score
\* of a position is the opposite of that of its colour mirror.
C28_BlackBonusMirrors ==
  /\ \A type \in {"p", "n", "b", "k"}, r \in 0..7, f \in 0..7 :
       getPieceSquareValue(PieceOf(type, "b"), r * 8 + f)
         = getPieceSquareValue(PieceOf(type, "w"), (7 - r) * 8 + f)
  /\ \A k \in 1..Len(evaluated) :
       ~IsGameOver(game) =>
         evaluated[k].score - MobilityTerm(game) - KingSafetyTerm(game)
           = -BoardScore(ColourMirror(game.pos.board), 0, 63)

\* evaluateBoard has computed the score of a game that goes on, with a
\* Black pawn on a square with a bonus and a board that is not its own
\* colour mirror
C28_Witness ==
  /\ evaluated # << >>
  /\ ~evaluated[1].hit
  /\ ~IsGameOver(game)
  /\ ColourMirror(game.pos.board) # game.pos.board
  /\ \E s \in 0..63 :
       /\ At(game.pos.board, s) = "p"
       /\ getPieceSquareValue("p", s) # 0

----------------------------------------------------------------------------
(* The claims about the opening                                            *)

\* the n-th scripted move of White is legal on the caller's board when the
\* n-th move is asked for: Black's replies have not blocked it
ScriptOpen(n) ==
  Matches(Verbose(CallerPosition(n - 1), LegalMoves(CallerPosition(n - 1)), 0),
          HIPPO_OPENING_WHITE[n]) # {}

\* C6: with the engine White from the initial position and Black's replies
\* handed over as the override or through updatePosition, the first three
\* moves delivered are the first three of White's script, g3, Bg2 and d3,
\* each as long as the replies have left it legal.
C6_ScriptedOpening ==
  \A n \in 1..Len(delivered) :
    (n <= 3 /\ (\A k \in 1..n - 1 : delivered[k].move # Null) /\ ScriptOpen(n))
      => delivered[n].move.san = HIPPO_OPENING_WHITE[n]


============================================================================
